---- MODULE Spec2Model ----
(***************************************************************************)
(* Music Library Management System: main.py (schema, registration,         *)
(* authentication, the admin-gated add_record / remove_record gateway with *)
(* its modification_history ledger) and records.py (the per-table create / *)
(* delete functions that use their own connections).                       *)
(*                                                                         *)
(* The SQLite file is modelled as tables of rows.  main.py works through   *)
(* one module-level connection whose INSERT / DELETE statements stay       *)
(* pending until conn.commit(); `content`, `history` and `seq` are that    *)
(* connection's view and `committed` is what is durably in the file.       *)
(***************************************************************************)
EXTENDS Integers, Sequences, FiniteSets, TLC

\* ------------------------------------------------------------------ bounds
MaxAccounts == 2      \* cap on the accounts AUTOINCREMENT counter
MaxRecords  == 1      \* cap on the number of rows ever inserted into the content tables
MaxHistory  == 3      \* cap on the modification_history AUTOINCREMENT counter
MaxFaults   == 1      \* cap on the number of store failures injected
MaxCreated  == 2      \* cap on the rows ever inserted, for the records.py functions

\* ------------------------------------------------------------ input domains
Usernames  == {"admin", "user", "bob"}
Emails     == {"admin@example.com", "bob@example.com"}
Passwords  == {"pw1", "pw2"}
RoleInputs == {"user", "admin", "ADMIN", "guest"}
Salts      == {1, 2}
Titles     == {"Song 1", "Song 2"}
NoValue    == "NULL"          \* a column the caller's dict leaves out / None
\* the (song_title, payload) pairs entered in a records.py session
Songs      == {<<"Song 1", "DATA_1">>, <<"Song 2", "DATA_2">>, <<"Song 2", NoValue>>}
\* the data dicts passed to add_record, as (song_title, payload): one complete
\* and one without its payload column
GatewayData == {<<"Song 1", "DATA_1">>, <<"Song 1", NoValue>>}
None       == "None"          \* Python's None as a returned value
NoChecksum == "-"             \* lyrics and music_scores have no checksum column

ContentTables  == {"lyrics", "music_scores", "musical_recordings"}
LedgerTable    == "modification_history"
\* the table arguments passed to add_record: one table without and the one
\* with a checksum column (music_scores takes the same path as lyrics)
AddTables      == {"lyrics", "musical_recordings"}
\* the table arguments passed to remove_record: the name is interpolated
\* unchecked into the DELETE, so it can also name the ledger
RemoveTables   == AddTables \cup {LedgerTable}
CounterTables  == ContentTables \cup {LedgerTable, "accounts", "users"}
CleanUpUsernames == {"admin", "user"}
CleanUpEmails    == {"admin@example.com", "user@example.com"}
Iterations == 100000

\* ------------------------------------------------------------ pure functions
\* str.lower() on the role values a caller can type
Lower(s) == IF s = "ADMIN" THEN "admin" ELSE s

\* a faulty digest that forgets the password and depends on the salt only
hash_password_NoPassword(password, salt) == <<"pbkdf2_hmac_sha256", "", salt, Iterations>>

\* hashlib.pbkdf2_hmac('sha256', password, salt, iterations): an injective
\* digest of (password, salt, iterations)
hash_password(password, salt) == <<"pbkdf2_hmac_sha256", password, salt, Iterations>>

\* a faulty checksum: the digest of the empty payload, whatever the payload
compute_checksum_Const(data) == <<"sha256", "">>

\* hashlib.sha256(data).hexdigest()
compute_checksum(data) == <<"sha256", data>>

\* the same digest as computed inline by records.add_musical_recording
records_checksum(recording) == <<"sha256", recording>>

\* ------------------------------------------------------------------- state
VARIABLES
    accounts,    \* accounts table: set of [id, email]
    users,       \* users table: set of [id, account_id, username, password_hash, salt, role]
    content,     \* content tables as seen by main.py's connection: table -> set of rows
    history,     \* modification_history as seen by main.py's connection: sequence of rows in id order
    seq,         \* AUTOINCREMENT counters (sqlite_sequence), per table
    committed,   \* [content, history, seq] durably committed to the database file
    in_transaction, \* main.py's connection has an open transaction (holds the write lock)
    faults,      \* number of store failures (sqlite3.Error raised by a statement) so far
    registered,  \* ghost: the (username, password) pairs typed at registration of the stored credentials
    last         \* the last call made and what its caller received

vars == <<accounts, users, content, history, seq, committed, in_transaction, faults, registered, last>>

\* what a caller observes of a call: the arguments the call got to use, the
\* role it authenticated to, the value returned ("raise" for an exception)
\* and the line printed
NoCall == [op |-> "start", username |-> "-", password |-> "-", email |-> "-",
           role |-> "-", table |-> "-", id |-> 0, title |-> "-",
           ret |-> "None", msg |-> "-"]

Snapshot(c, h, s) == [content |-> c, history |-> h, seq |-> s]

Init ==
    /\ accounts = {}
    /\ users = {}
    /\ content = [t \in ContentTables |-> {}]
    /\ history = << >>
    /\ seq = [t \in CounterTables |-> 0]
    /\ committed = Snapshot(content, history, seq)
    /\ in_transaction = FALSE
    /\ faults = 0
    /\ registered = {}
    /\ last = NoCall

\* ------------------------------------------------------- accounts and users
\* a faulty lookup on accounts.email that never finds a row
AccountsByEmail_Empty(email) == {}

\* lookup through the UNIQUE index on accounts.email, used by the SELECT of
\* register_user and by the UNIQUE constraint on insert
AccountsByEmail(email) == {a \in accounts : a.email = email}

\* a faulty lookup on users.username that never finds a row
UsersByUsername_Empty(username) == {}

\* lookup through the UNIQUE index on users.username
UsersByUsername(username) == {u \in users : u.username = username}

\* cursor.fetchone() over a non-empty result set (an empty one gives None,
\* which `if user:` tests)
FetchOne(rows) == CHOOSE r \in rows : TRUE

\* Login.authenticate_user
authenticate_user(username, password) ==
    LET rows == UsersByUsername(username)
    IN  IF rows # {} /\ hash_password(password, FetchOne(rows).salt) = FetchOne(rows).password_hash
        THEN FetchOne(rows).role
        ELSE None

\* a faulty constraint that accepts every role
RoleCheck_Any(role) == TRUE

\* CHECK(role IN ('user', 'admin')) of the users table
RoleCheck(role) == role \in {"user", "admin"}

\* a faulty add_user that also resets the role of the credentials already stored
add_user_ResetRoles(user_id, account_id, username, password, salt, role) ==
    {[u EXCEPT !.role = "user"] : u \in users} \cup
    {[id |-> user_id, account_id |-> account_id, username |-> username,
      password_hash |-> hash_password(password, salt), salt |-> salt, role |-> role]}

\* a faulty add_user that does not store the account id it is given
add_user_Unlinked(user_id, account_id, username, password, salt, role) ==
    users \cup
    {[id |-> user_id, account_id |-> 0, username |-> username,
      password_hash |-> hash_password(password, salt), salt |-> salt, role |-> role]}

\* Login.add_user: hash the password with a fresh salt and INSERT INTO users;
\* the users table after the INSERT
add_user(user_id, account_id, username, password, salt, role) ==
    users \cup
    {[id |-> user_id, account_id |-> account_id, username |-> username,
      password_hash |-> hash_password(password, salt), salt |-> salt, role |-> role]}

\* faulty uniqueness checks that look at the username first
UniquenessCheck_UsernameFirst(email, username) ==
    IF UsersByUsername(username) # {} THEN "username already exists"
    ELSE IF AccountsByEmail(email) # {} THEN "email already exists"
    ELSE "-"

\* the two SELECT ... fetchone() checks of register_user, in the order of the
\* code: the failure printed, or "-" when both pass
UniquenessCheck(email, username) ==
    IF AccountsByEmail(email) # {} THEN "email already exists"
    ELSE IF UsersByUsername(username) # {} THEN "username already exists"
    ELSE "-"

\* register_user: the seven prompts, the two uniqueness checks, Account.save
\* (INSERT + commit) and Login.add_user (hash with a fresh salt, INSERT + commit)
RegisterUser ==
    \E email \in Emails, username \in Usernames :
      LET account_id == seq["accounts"] + 1
          user_id == seq["users"] + 1
          R(ret, msg) == [NoCall EXCEPT !.op = "register_user", !.username = username,
                                       !.email = email, !.ret = ret, !.msg = msg]
      IN
      IF UniquenessCheck(email, username) # "-" THEN
          /\ last' = R("(None, None)", UniquenessCheck(email, username))
          /\ UNCHANGED <<accounts, users, content, history, seq, committed, in_transaction,
                         faults, registered>>
      ELSE
          /\ seq["accounts"] < MaxAccounts
          /\ IF AccountsByEmail(email) # {} THEN
                \* UNIQUE constraint on accounts.email: Account.save raises
                /\ last' = R("raise", "IntegrityError")
                /\ in_transaction' = TRUE
                /\ UNCHANGED <<accounts, users, content, history, seq, committed, faults, registered>>
             ELSE \E password \in Passwords, roleInput \in RoleInputs, salt \in Salts :
                LET role == Lower(roleInput) IN
                /\ accounts' = accounts \cup {[id |-> account_id, email |-> email]}
                /\ IF RoleCheck(role) /\ UsersByUsername(username) = {} THEN
                      /\ users' = add_user(user_id, account_id, username, password, salt, role)
                      /\ seq' = [seq EXCEPT !["accounts"] = account_id, !["users"] = user_id]
                      /\ registered' = registered \cup
                            {[username |-> username, password |-> password]}
                      /\ in_transaction' = FALSE
                      /\ last' = [R("(username, password)", "registered successfully")
                                     EXCEPT !.role = roleInput]
                   ELSE
                      \* CHECK / UNIQUE constraint of users: Login.add_user raises
                      \* after Account.save has committed
                      /\ seq' = [seq EXCEPT !["accounts"] = account_id]
                      /\ UNCHANGED <<users, registered>>
                      /\ in_transaction' = TRUE
                      /\ last' = [R("raise", "IntegrityError") EXCEPT !.role = roleInput]
                \* conn.commit() of Account.save commits whatever is pending
                /\ committed' = Snapshot(content, history, seq')
                /\ UNCHANGED <<content, history, faults>>

\* clean_up: two DELETE statements and a commit
CleanUp ==
    /\ users' = {u \in users : u.username \notin CleanUpUsernames}
    /\ accounts' = {a \in accounts : a.email \notin CleanUpEmails}
    /\ registered' = {r \in registered : r.username \notin CleanUpUsernames}
    /\ committed' = Snapshot(content, history, seq)
    /\ in_transaction' = FALSE
    /\ last' = [NoCall EXCEPT !.op = "clean_up"]
    /\ UNCHANGED <<content, history, seq, faults>>

\* a call of Login.authenticate_user: a SELECT, no write
Authenticate ==
    \E username \in Usernames, password \in Passwords :
      /\ last' = [NoCall EXCEPT !.op = "authenticate_user", !.username = username,
                                 !.password = password,
                                 !.ret = authenticate_user(username, password)]
      /\ UNCHANGED <<accounts, users, content, history, seq, committed, in_transaction,
                     faults, registered>>

\* ------------------------------------------------------------ the gateway
TotalRecords == seq["lyrics"] + seq["music_scores"] + seq["musical_recordings"]

\* a row of a content table; lyrics / score / recording share the payload column
ContentRow(table, id, song_title, payload, checksum) ==
    [id |-> id, song_title |-> song_title, payload |-> payload, checksum |-> checksum]

\* a row of modification_history
HistoryRow(id, table, action, record_id) ==
    [id |-> id, table_name |-> table, action |-> action, record_id |-> record_id]

\* role = Login.authenticate_user(username, password), over the credentials a
\* caller of the gateway can pass
Roles == {authenticate_user(username, password) :
             username \in Usernames, password \in Passwords}

\* a faulty role check that lets every authenticated caller through
IsAdmin_AnyRole(role) == role # None

\* `if role != 'admin': ... return` of add_record and remove_record
IsAdmin(role) == role = "admin"

\* a faulty history INSERT that logs the table name in place of the action
LogEntry_NoAction(table, action, record_id) ==
    HistoryRow(seq[LedgerTable] + 1, table, table, record_id)

\* INSERT INTO modification_history (table_name, action, record_id)
LogEntry(table, action, record_id) ==
    HistoryRow(seq[LedgerTable] + 1, table, action, record_id)

\* add_record: authenticate, build the INSERT (with the checksum for
\* musical_recordings), INSERT the row, INSERT the history entry, commit.
\* storeFails: the history INSERT raises (sqlite3.Error), so the row INSERT
\* stays pending on the connection and nothing is committed.
AddRecord ==
    \E role \in Roles :
      IF ~IsAdmin(role) THEN
          /\ last' = [NoCall EXCEPT !.op = "add_record", !.role = role,
                                     !.msg = "Permission Denied"]
          /\ UNCHANGED <<accounts, users, content, history, seq, committed, in_transaction,
                         faults, registered>>
      ELSE \E table \in AddTables, song \in GatewayData, storeFails \in BOOLEAN :
      LET song_title == song[1]
          payload == song[2]
          record_id == seq[table] + 1
          checksum == IF table = "musical_recordings"
                      THEN compute_checksum(payload) ELSE NoChecksum
          R(id, ret, msg) == [NoCall EXCEPT !.op = "add_record", !.role = role, !.table = table,
                                            !.id = id, !.ret = ret, !.msg = msg]
      IN
      IF payload = NoValue THEN
          \* KeyError on data['recording'] before any statement, or the INSERT
          \* fails its NOT NULL constraint: nothing written
          /\ last' = R(0, "raise", "-")
          /\ in_transaction' = (in_transaction \/ table # "musical_recordings")
          /\ UNCHANGED <<accounts, users, content, history, seq, committed, faults, registered>>
      ELSE
          /\ TotalRecords < MaxRecords
          /\ seq[LedgerTable] < MaxHistory
          /\ content' = [content EXCEPT ![table] =
                            @ \cup {ContentRow(table, record_id, song_title, payload, checksum)}]
          /\ IF storeFails THEN
                /\ faults < MaxFaults
                /\ faults' = faults + 1
                /\ in_transaction' = TRUE
                /\ seq' = [seq EXCEPT ![table] = record_id]
                /\ last' = R(record_id, "raise", "-")
                /\ UNCHANGED <<history, committed>>
             ELSE
                /\ history' = Append(history, LogEntry(table, "INSERT", record_id))
                /\ seq' = [seq EXCEPT ![table] = record_id, ![LedgerTable] = @ + 1]
                /\ committed' = Snapshot(content', history', seq')
                /\ last' = R(record_id, None, "Record added")
                /\ in_transaction' = FALSE
                /\ UNCHANGED faults
          /\ UNCHANGED <<accounts, users, registered>>

\* remove_record: authenticate, DELETE by id, INSERT the history entry, commit
RemoveRecord ==
    \E role \in Roles :
      IF ~IsAdmin(role) THEN
          /\ last' = [NoCall EXCEPT !.op = "remove_record", !.role = role,
                                     !.msg = "Permission Denied"]
          /\ UNCHANGED <<accounts, users, content, history, seq, committed, in_transaction,
                         faults, registered>>
      ELSE \E table \in RemoveTables, record_id \in 1..MaxRecords,
              storeFails \in BOOLEAN :
      LET R(ret, msg) == [NoCall EXCEPT !.op = "remove_record", !.role = role, !.table = table,
                                        !.id = record_id, !.ret = ret, !.msg = msg]
          deleted == IF table \in ContentTables
                     THEN [content EXCEPT ![table] = {r \in @ : r.id # record_id}]
                     ELSE content
          kept == IF table = LedgerTable
                  THEN SelectSeq(history, LAMBDA h : h.id # record_id)
                  ELSE history
      IN
          /\ seq[LedgerTable] < MaxHistory
          /\ content' = deleted
          /\ IF storeFails THEN
                /\ faults < MaxFaults
                /\ faults' = faults + 1
                /\ in_transaction' = TRUE
                /\ history' = kept
                /\ last' = R("raise", "-")
                /\ UNCHANGED <<seq, committed>>
             ELSE
                /\ history' = Append(kept, LogEntry(table, "DELETE", record_id))
                /\ seq' = [seq EXCEPT ![LedgerTable] = @ + 1]
                /\ committed' = Snapshot(content', history', seq')
                /\ last' = R(None, "Record deleted")
                /\ in_transaction' = FALSE
                /\ UNCHANGED faults
          /\ UNCHANGED <<accounts, users, registered>>

\* the process ends (conn.close() without a commit, or an uncaught exception)
\* and the script is started again: pending statements are rolled back and
\* the new connection sees the committed file
Restart ==
    /\ content' = committed.content
    /\ history' = committed.history
    /\ seq' = committed.seq
    /\ in_transaction' = FALSE
    /\ last' = NoCall
    /\ UNCHANGED <<accounts, users, committed, faults, registered>>

\* ------------------------------------------------------------- records.py
\* a faulty authenticator that returns the role of any stored username
records_authenticate_user_NoHash(username, password) ==
    LET rows == {u \in users : u.username = username}
    IN  IF rows # {} THEN FetchOne(rows).role ELSE None

\* records.authenticate_user: SELECT by username, recompute
\* pbkdf2_hmac('sha256', password, salt, 100000), compare with the stored hash
records_authenticate_user(username, password) ==
    LET rows == {u \in users : u.username = username}
    IN  IF rows # {}
           /\ <<"pbkdf2_hmac_sha256", password, FetchOne(rows).salt, 100000>>
                 = FetchOne(rows).password_hash
        THEN FetchOne(rows).role
        ELSE None

\* a faulty DELETE that removes every row of the table
DeleteByTitle_All(rows, song_title) == {}

\* DELETE FROM <table> WHERE song_title = ?: the rows that stay
DeleteByTitle(rows, song_title) == {r \in rows : r.song_title # song_title}

\* records.py functions open their own connection, write and commit.  While
\* main.py's connection holds the write lock the statement times out with
\* sqlite3.OperationalError and nothing is written.  `call` is the call
\* record of the caller, completed here with the table, title and outcome.
RecordsInsertBy(call, table, song, checksum) ==
    LET record_id == seq[table] + 1
        R(ret, msg) == [call EXCEPT !.table = table, !.title = song[1],
                                    !.ret = ret, !.msg = msg]
    IN
    IF in_transaction \/ song[2] = NoValue THEN
        /\ last' = R("raise", "-")
        /\ UNCHANGED <<accounts, users, content, history, seq, committed, in_transaction,
                       faults, registered>>
    ELSE
        /\ TotalRecords < MaxCreated
        /\ content' = [content EXCEPT ![table] =
                          @ \cup {ContentRow(table, record_id, song[1], song[2], checksum)}]
        /\ seq' = [seq EXCEPT ![table] = record_id]
        /\ committed' = Snapshot(content', history, seq')
        /\ last' = R(None, "added successfully")
        /\ UNCHANGED <<accounts, users, history, in_transaction, faults, registered>>

RecordsInsert(op, table, song, checksum) ==
    RecordsInsertBy([NoCall EXCEPT !.op = op], table, song, checksum)

\* DELETE FROM <table> WHERE song_title = ?, commit
RecordsDeleteBy(call, table, song_title) ==
    LET R(ret, msg) == [call EXCEPT !.table = table, !.title = song_title,
                                    !.ret = ret, !.msg = msg]
    IN
    IF in_transaction THEN
        /\ last' = R("raise", "-")
        /\ UNCHANGED <<accounts, users, content, history, seq, committed, in_transaction,
                       faults, registered>>
    ELSE
        /\ content' = [content EXCEPT ![table] = DeleteByTitle(@, song_title)]
        /\ committed' = Snapshot(content', history, seq)
        /\ last' = R(None, "deleted successfully")
        /\ UNCHANGED <<accounts, users, history, seq, in_transaction, faults, registered>>

RecordsDelete(op, table, song_title) ==
    RecordsDeleteBy([NoCall EXCEPT !.op = op], table, song_title)

CreateLyrics == \E song \in Songs : RecordsInsert("create_lyrics", "lyrics", song, NoChecksum)

AddMusicScore == \E song \in Songs : RecordsInsert("add_music_score", "music_scores", song, NoChecksum)

AddMusicalRecording ==
    \E song \in Songs :
       RecordsInsert("add_musical_recording", "musical_recordings", song, records_checksum(song[2]))

DeleteLyrics == \E song_title \in Titles : RecordsDelete("delete_lyrics", "lyrics", song_title)

DeleteMusicScore ==
    \E song_title \in Titles : RecordsDelete("delete_music_score", "music_scores", song_title)

DeleteMusicalRecording ==
    \E song_title \in Titles :
       RecordsDelete("delete_musical_recording", "musical_recordings", song_title)

\* the database after the two registrations of an administrator and a reader
InitStore ==
    /\ accounts = {[id |-> 1, email |-> "admin@example.com"],
                   [id |-> 2, email |-> "bob@example.com"]}
    /\ users = {[id |-> 1, account_id |-> 1, username |-> "admin",
                 password_hash |-> hash_password("pw1", 1), salt |-> 1, role |-> "admin"],
                [id |-> 2, account_id |-> 2, username |-> "bob",
                 password_hash |-> hash_password("pw2", 2), salt |-> 2, role |-> "user"]}
    /\ content = [t \in ContentTables |-> {}]
    /\ history = << >>
    /\ seq = [t \in CounterTables |-> IF t \in {"accounts", "users"} THEN 2 ELSE 0]
    /\ committed = Snapshot(content, history, seq)
    /\ in_transaction = FALSE
    /\ faults = 0
    /\ registered = {[username |-> "admin", password |-> "pw1"],
                     [username |-> "bob", password |-> "pw2"]}
    /\ last = NoCall

NextGateway == AddRecord \/ RemoveRecord \/ Restart

SpecGateway == InitStore /\ [][NextGateway]_vars

NextStore ==
    \/ AddRecord \/ Restart
    \/ CreateLyrics \/ AddMusicScore \/ AddMusicalRecording
    \/ DeleteLyrics \/ DeleteMusicScore \/ DeleteMusicalRecording

SpecStore == InitStore /\ [][NextStore]_vars

NextReg == RegisterUser \/ CleanUp \/ Authenticate

SpecReg == Init /\ [][NextReg]_vars

\* ----------------------------------------------------------------- login.py
\* a faulty authenticator that recomputes the hash with another iteration count
login_authenticate_user_Iterations(username, password) ==
    LET rows == {u \in users : u.username = username}
    IN  IF rows # {}
           /\ <<"pbkdf2_hmac_sha256", password, FetchOne(rows).salt, 1000>>
                 = FetchOne(rows).password_hash
        THEN FetchOne(rows).role
        ELSE None

\* login.authenticate_user: SELECT by username, recompute
\* pbkdf2_hmac('sha256', password, salt, 100000), compare with the stored hash
login_authenticate_user(username, password) ==
    LET rows == {u \in users : u.username = username}
    IN  IF rows # {}
           /\ <<"pbkdf2_hmac_sha256", password, FetchOne(rows).salt, 100000>>
                 = FetchOne(rows).password_hash
        THEN FetchOne(rows).role
        ELSE None

\* a call of login.authenticate_user: a SELECT, no write
LoginAuthenticate ==
    \E username \in Usernames, password \in Passwords :
      /\ last' = [NoCall EXCEPT !.op = "login.authenticate_user", !.username = username,
                                 !.password = password,
                                 !.ret = login_authenticate_user(username, password)]
      /\ UNCHANGED <<accounts, users, content, history, seq, committed, in_transaction,
                     faults, registered>>

\* a call of records.authenticate_user: a SELECT, no write
RecordsAuthenticate ==
    \E username \in Usernames, password \in Passwords :
      /\ last' = [NoCall EXCEPT !.op = "records.authenticate_user", !.username = username,
                                 !.password = password,
                                 !.ret = records_authenticate_user(username, password)]
      /\ UNCHANGED <<accounts, users, content, history, seq, committed, in_transaction,
                     faults, registered>>

NextAuth == RegisterUser \/ CleanUp \/ Authenticate \/ LoginAuthenticate \/ RecordsAuthenticate

SpecAuth == Init /\ [][NextAuth]_vars

\* ------------------------------------------------------ records.py session
\* the answers typed at the create/delete and lyrics/score/recording prompts,
\* after .strip().lower()
SessionActions == {"create", "delete", "other"}
ArtifactTypes  == {"lyrics", "score", "recording", "other"}
\* the (song_title, payload) pairs typed at the prompts: input() gives strings
SessionSongs   == {song \in Songs : song[2] # NoValue}

\* records.main: prompt for the credentials, authenticate, then by role end
\* the session, show the three view_* listings (SELECTs), or ask the
\* administrator for one create / delete and run it
RecordsMain ==
    \E username \in Usernames, password \in Passwords :
      LET role == records_authenticate_user(username, password)
          S(op, msg) == [NoCall EXCEPT !.op = op, !.username = username,
                                       !.password = password, !.role = role, !.msg = msg]
          NoWrite(op, msg) ==
              /\ last' = S(op, msg)
              /\ UNCHANGED <<accounts, users, content, history, seq, committed,
                             in_transaction, faults, registered>>
      IN
      IF role = None THEN NoWrite("main", "Login Failed")
      ELSE IF role = "user" THEN NoWrite("view", "Welcome, user!")
      ELSE IF role = "admin" THEN
          \E action \in SessionActions, artifact_type \in ArtifactTypes :
            IF action = "create" THEN
                IF artifact_type = "lyrics" THEN
                    \E song \in SessionSongs :
                       RecordsInsertBy(S("create_lyrics", "-"), "lyrics", song, NoChecksum)
                ELSE IF artifact_type = "score" THEN
                    \E song \in SessionSongs :
                       RecordsInsertBy(S("add_music_score", "-"), "music_scores", song, NoChecksum)
                ELSE IF artifact_type = "recording" THEN
                    \E song \in SessionSongs :
                       RecordsInsertBy(S("add_musical_recording", "-"), "musical_recordings",
                                       song, records_checksum(song[2]))
                ELSE NoWrite("main", "Invalid artifact type.")
            ELSE IF action = "delete" THEN
                IF artifact_type = "lyrics" THEN
                    \E song_title \in Titles :
                       RecordsDeleteBy(S("delete_lyrics", "-"), "lyrics", song_title)
                ELSE IF artifact_type = "score" THEN
                    \E song_title \in Titles :
                       RecordsDeleteBy(S("delete_music_score", "-"), "music_scores", song_title)
                ELSE IF artifact_type = "recording" THEN
                    \E song_title \in Titles :
                       RecordsDeleteBy(S("delete_musical_recording", "-"),
                                       "musical_recordings", song_title)
                ELSE NoWrite("main", "Invalid artifact type.")
            ELSE NoWrite("main", "Invalid action.")
      ELSE NoWrite("main", "Unknown role.")

NextSession == RecordsMain \/ AddRecord \/ Restart

SpecSession == InitStore /\ [][NextSession]_vars
\* ===================================================================== claims
Range(f) == {f[i] : i \in DOMAIN f}

\* the rows of a content table in a committed snapshot, by id
CommittedIds(c, t) == {r.id : r \in c.content[t]}

\* the ledger entries for (table, action, record_id), as positions in a ledger
Entries(h, t, action, i) ==
    {k \in DOMAIN h : h[k].table_name = t /\ h[k].action = action /\ h[k].record_id = i}

GatewayOps == {"add_record", "remove_record"}

\* C1: a call of add_record or remove_record whose credentials do not
\* authenticate to role 'admin' changes no content table and not the ledger,
\* neither in the connection's view nor in the committed file.
C1_DeniedNoEffect ==
    [][ (last'.op \in GatewayOps /\ last'.role # "admin")
          => (content' = content /\ history' = history /\ committed' = committed) ]_vars

\* a reader's remove_record was denied while rows and ledger entries exist
C1_Witness ==
    /\ last.op = "remove_record" /\ last.role = "user" /\ last.msg = "Permission Denied"
    /\ history # << >>
    /\ \E t \in ContentTables : content[t] # {}

\* C2: authenticate_user(username, password) returns the stored role exactly
\* when a credential with that username exists and the password is the one
\* registered for it, and the single value None in every other case.
C2_AuthenticateIff ==
    /\ \A u \in Usernames, p \in Passwords :
          LET rows == {x \in users : x.username = u}
          IN  IF rows # {} /\ [username |-> u, password |-> p] \in registered
              THEN \A x \in rows : authenticate_user(u, p) = x.role
              ELSE authenticate_user(u, p) = None
    /\ last.op = "authenticate_user"
          => last.ret = authenticate_user(last.username, last.password)

\* a stored username was tried with a password that is not the registered one
C2_Witness ==
    /\ last.op = "authenticate_user"
    /\ \E x \in users : x.username = last.username
    /\ [username |-> last.username, password |-> last.password] \notin registered
    /\ last.ret = None
    /\ \E r \in registered : r.username # last.username

\* successful row-level inserts into and deletes from the content tables of a
\* committed snapshot: every id handed out was inserted, every id no longer
\* present was deleted
Mutations(c) ==
    LET n(t) == c.seq[t] + (c.seq[t] - Cardinality(c.content[t]))
    IN  n("lyrics") + n("music_scores") + n("musical_recordings")

\* C3: the number of history entries equals the number of successful
\* content-table mutations, whichever mutating function performed them.
C3_OneEntryPerMutation == Len(committed.history) = Mutations(committed)

\* C4: the content-table write and the history-entry write of add_record and
\* remove_record are atomic: whenever a commit changes whether row (table, id)
\* is in the committed content table, the same commit adds a history entry for
\* (table, id).
C4_AtomicPair ==
    [][ \A t \in ContentTables :
          \A i \in (CommittedIds(committed', t) \ CommittedIds(committed, t))
                   \cup (CommittedIds(committed, t) \ CommittedIds(committed', t)) :
             \E h \in Range(committed'.history) :
                /\ h.id > committed.seq[LedgerTable]
                /\ h.table_name = t /\ h.record_id = i ]_vars

\* C5: an admin add_record creating record i followed by remove_record on the
\* same table with id i leaves the table without record i and the ledger with
\* exactly one INSERT and exactly one DELETE entry for (table, i), the INSERT
\* first.
C5_AddThenRemove ==
    [][ ( /\ last.op = "add_record" /\ last.msg = "Record added"
          /\ last'.op = "remove_record" /\ last'.msg = "Record deleted"
          /\ last'.table = last.table /\ last'.id = last.id )
        => ( /\ \A r \in content'[last.table] : r.id # last.id
             /\ Cardinality(Entries(history', last.table, "INSERT", last.id)) = 1
             /\ Cardinality(Entries(history', last.table, "DELETE", last.id)) = 1
             /\ \A k \in Entries(history', last.table, "INSERT", last.id) :
                   \A d \in Entries(history', last.table, "DELETE", last.id) : k < d ) ]_vars

\* SHA-256 of a payload, as the claim states it
SHA256(payload) == <<"sha256", payload>>

ChecksumsMatch(rows) == \A r \in rows : r.checksum = SHA256(r.payload)

\* C6: every row of musical_recordings carries the SHA-256 of its payload,
\* whichever function inserted it, and a successful admin add_record into
\* musical_recordings adds exactly one such row and appends exactly one
\* INSERT history entry referencing the new row's id.
C6_RecordingChecksum ==
    /\ [](/\ ChecksumsMatch(content["musical_recordings"])
          /\ ChecksumsMatch(committed.content["musical_recordings"]))
    /\ [][ ( /\ last'.op = "add_record" /\ last'.table = "musical_recordings"
             /\ last'.role = "admin" /\ last'.msg = "Record added" )
           => ( /\ \E r \in content'["musical_recordings"] :
                     /\ r.id = last'.id
                     /\ r \notin content["musical_recordings"]
                     /\ r.checksum = SHA256(r.payload)
                     /\ content'["musical_recordings"] = content["musical_recordings"] \cup {r}
                /\ Len(history') = Len(history) + 1
                /\ SubSeq(history', 1, Len(history)) = history
                /\ LET h == history'[Len(history')]
                   IN  /\ h.table_name = "musical_recordings"
                       /\ h.action = "INSERT"
                       /\ h.record_id = last'.id ) ]_vars

\* add_record has just added a recording and its ledger entry
C6_Witness ==
    /\ last.op = "add_record" /\ last.table = "musical_recordings" /\ last.msg = "Record added"
    /\ \E r \in content["musical_recordings"] : r.id = last.id /\ r.checksum = SHA256(r.payload)
    /\ Len(history) = 1

\* C7: registering with an email that already belongs to a stored account
\* returns (None, None) and leaves the accounts and users tables unchanged.
C7_DuplicateEmail ==
    [][ (last'.op = "register_user" /\ \E a \in accounts : a.email = last'.email)
          => (last'.ret = "(None, None)" /\ accounts' = accounts /\ users' = users) ]_vars

\* a registration was refused because its email is already stored
C7_Witness ==
    /\ last.op = "register_user" /\ last.ret = "(None, None)"
    /\ last.msg = "email already exists"
    /\ \E a \in accounts : a.email = last.email

\* C8: no two account rows share an email and no two user rows share a
\* username.
C8_Unique ==
    /\ \A a1 \in accounts, a2 \in accounts : a1.email = a2.email => a1 = a2
    /\ \A u1 \in users, u2 \in users : u1.username = u2.username => u1 = u2

\* a registration has just stored the second account and second credential
C8_Witness ==
    /\ last.op = "register_user" /\ last.ret = "(username, password)"
    /\ Cardinality(accounts) = 2 /\ Cardinality(users) = 2

\* C9: the ledger is append-only: after every step it extends the ledger
\* before the step, so each entry keeps its table_name, action and record_id
\* and is never removed.
C9_AppendOnly ==
    [][ /\ Len(history') >= Len(history)
        /\ SubSeq(history', 1, Len(history)) = history ]_vars

\* C10: add_record / remove_record never report a failed authentication and
\* an authenticated 'user' role by the same result.
C10_DistinctResults ==
    [][ ( /\ last.op \in GatewayOps /\ last'.op = last.op
          /\ last.role = None /\ last'.role = "user" )
        => <<last.ret, last.msg>> # <<last'.ret, last'.msg>> ]_vars

\* C11 as stated: every stored credential has role 'user' or 'admin', and a
\* register_user call given any other role value stores no credential.
C11_RoleValues ==
    /\ [](\A u \in users : u.role \in {"user", "admin"})
    /\ [][ (last'.op = "register_user" /\ last'.role \notin {"-", "user", "admin"})
           => users' = users ]_vars

\* C11: every stored credential has role 'user' or 'admin', and a
\* register_user call given a role value whose lower-case form is neither
\* 'user' nor 'admin' stores no credential (register_user lower-cases the
\* value before it reaches the store, so 'ADMIN' is stored as 'admin').
C11_RoleValuesLowered ==
    /\ [](\A u \in users : u.role \in {"user", "admin"})
    /\ [][ (last'.op = "register_user" /\ last'.role # "-"
             /\ Lower(last'.role) \notin {"user", "admin"})
           => (users' = users /\ last'.ret = "raise") ]_vars
    /\ [][ (last'.op = "register_user" /\ last'.ret = "(username, password)")
           => \E u \in users' \ users : u.role = Lower(last'.role) ]_vars

\* a registration with role 'guest' was rejected by the store while another
\* credential is stored
C11_Witness ==
    /\ last.op = "register_user" /\ last.role = "guest" /\ last.ret = "raise"
    /\ users # {}
    /\ \A u \in users : u.username # last.username

C13_EmailBeforeUsername ==
    [][ last'.op = "register_user" =>
          LET emailTaken == \E a \in accounts : a.email = last'.email
              usernameTaken == \E u \in users : u.username = last'.username
              nothingWritten == /\ accounts' = accounts /\ users' = users
                                /\ seq' = seq /\ committed' = committed
          IN  /\ emailTaken =>
                   /\ last'.ret = "(None, None)" /\ last'.msg = "email already exists"
                   /\ nothingWritten
              /\ (~emailTaken /\ usernameTaken) =>
                   /\ last'.ret = "(None, None)" /\ last'.msg = "username already exists"
                   /\ nothingWritten ]_vars

\* a registration whose email and username are both already stored was
\* refused for its email
C13_Witness ==
    /\ last.op = "register_user" /\ last.msg = "email already exists"
    /\ \E a \in accounts : a.email = last.email
    /\ \E u \in users : u.username = last.username

\* C14: an admin remove_record that returns, called with an id that is not in
\* the content table, leaves the content tables unchanged and appends exactly
\* one DELETE history entry carrying that table name and id.
C14_RemoveMissing ==
    [][ ( /\ last'.op = "remove_record" /\ last'.role = "admin"
          /\ last'.msg = "Record deleted"
          /\ last'.table \in ContentTables
          /\ \A r \in content[last'.table] : r.id # last'.id )
        => ( /\ content' = content
             /\ Len(history') = Len(history) + 1
             /\ SubSeq(history', 1, Len(history)) = history
             /\ LET h == history'[Len(history')]
                IN  /\ h.table_name = last'.table
                    /\ h.action = "DELETE"
                    /\ h.record_id = last'.id ) ]_vars

\* remove_record has logged a DELETE for an id its table never handed out
C14_Witness ==
    /\ last.op = "remove_record" /\ last.msg = "Record deleted"
    /\ last.table \in ContentTables
    /\ seq[last.table] < last.id
    /\ history # << >>
    /\ history[Len(history)].action = "DELETE"
    /\ history[Len(history)].record_id = last.id

\* C15: a successful register_user stores exactly one new account and exactly
\* one new credential whose account_id is the new account's id; when the
\* credential write fails after the account write (a role the store rejects),
\* the new account is stored and committed, and no credential refers to it.
C15_AccountThenCredential ==
    [][ last'.op = "register_user" =>
          /\ last'.ret = "(username, password)" =>
                \E a \in accounts' \ accounts :
                   /\ accounts' = accounts \cup {a}
                   /\ a.email = last'.email
                   /\ \E u \in users' \ users :
                         /\ users' = users \cup {u}
                         /\ u.username = last'.username
                         /\ u.account_id = a.id
          /\ (last'.ret = "raise" /\ last'.role # "-") =>
                \E a \in accounts' \ accounts :
                   /\ accounts' = accounts \cup {a}
                   /\ a.email = last'.email
                   /\ committed'.seq["accounts"] = a.id
                   /\ users' = users
                   /\ \A u \in users' : u.account_id # a.id ]_vars

\* a registration with a rejected role left its account stored without a
\* credential, next to a complete registration
C15_Witness ==
    /\ last.op = "register_user" /\ last.ret = "raise" /\ last.role = "guest"
    /\ \E a \in accounts :
          /\ a.email = last.email
          /\ \A u \in users : u.account_id # a.id
    /\ \E u \in users : \E a \in accounts : u.account_id = a.id

\* C16: after any sequence of register_user and clean_up calls, every stored
\* credential's account_id is the id of a stored account.
C16_CredentialHasAccount ==
    \A u \in users : \E a \in accounts : a.id = u.account_id

\* C17: in the ledger, each DELETE entry for a pair (table, record_id) comes
\* after an INSERT entry for the same pair, and no pair has more DELETE
\* entries than INSERT entries.
C17_DeleteAfterInsert ==
    \A k \in DOMAIN history :
       history[k].action = "DELETE" =>
          LET t == history[k].table_name
              i == history[k].record_id
          IN  /\ \E j \in Entries(history, t, "INSERT", i) : j < k
              /\ Cardinality(Entries(history, t, "DELETE", i))
                    <= Cardinality(Entries(history, t, "INSERT", i))

RecordsMutators == {"create_lyrics", "add_music_score", "add_musical_recording",
                    "delete_lyrics", "delete_music_score", "delete_musical_recording"}

\* C18: in a records.py session a create or delete function runs only when
\* the credentials entered are those registered for a credential with role
\* 'admin'; a failed login and a 'user' login run none of them and leave
\* every table unchanged.
C18_SessionGate ==
    [][ (last'.op \in RecordsMutators \cup {"main", "view"}) =>
          LET valid == [username |-> last'.username, password |-> last'.password]
                          \in registered
              stored(role) == \E u \in users : u.username = last'.username /\ u.role = role
              unchanged == /\ content' = content /\ history' = history
                           /\ committed' = committed /\ seq' = seq
                           /\ accounts' = accounts /\ users' = users
          IN  /\ last'.op \in RecordsMutators => (valid /\ stored("admin"))
              /\ ~valid => (last'.op = "main" /\ last'.msg = "Login Failed" /\ unchanged)
              /\ (valid /\ stored("user")) => (last'.op = "view" /\ unchanged) ]_vars

\* a reader's session has shown the listings of a store that holds a row and
\* ended without a create or delete
C18_Witness ==
    /\ last.op = "view" /\ last.role = "user"
    /\ \E t \in ContentTables : content[t] # {}

Authenticators == {"authenticate_user", "login.authenticate_user", "records.authenticate_user"}

\* C19: against the same users table and for the same (username, password),
\* main.Login.authenticate_user, login.authenticate_user and
\* records.authenticate_user return the same role or all return None.
C19_AuthenticatorsAgree ==
    /\ \A u \in Usernames, p \in Passwords :
          /\ login_authenticate_user(u, p) = authenticate_user(u, p)
          /\ records_authenticate_user(u, p) = authenticate_user(u, p)
    /\ last.op \in Authenticators =>
          /\ last.ret = authenticate_user(last.username, last.password)
          /\ last.ret = login_authenticate_user(last.username, last.password)
          /\ last.ret = records_authenticate_user(last.username, last.password)

\* login.authenticate_user has returned the role of one stored credential
\* while a second credential with another salt and password is stored
C19_Witness ==
    /\ last.op = "login.authenticate_user" /\ last.ret = "admin"
    /\ \E u \in users : u.username = last.username /\ u.role = "admin"
    /\ \E v \in users : v.username # last.username /\ v.role = "user"
    /\ records_authenticate_user(last.username, last.password) = "admin"

RecordsDeleters == {"delete_lyrics", "delete_music_score", "delete_musical_recording"}

====
